---- MODULE Spec2Model ----
\* A model of the squnch compression API (src/app/api/[[...path]]/route.js):
\* the video job lifecycle around the ffmpeg callbacks, the progress store,
\* the download endpoint with its retention timer, the batch counters and
\* the image path's format policy.
EXTENDS Integers, Sequences, FiniteSets, TLC

\* ---------------------------------------------------------------- bounds

NumFiles == 2
MaxJobs == 2
MaxProgress == 2
MaxDownloads == 2
MaxImages == 2
MaxBatches == 1
\* Video jobs run beside the download requests (SpecDownload).
MaxDownloadJobs == 1
MaxCallers == 4
MaxEntries == 3

FileIds == 1..NumFiles
Jobs == 1..MaxJobs
Downloads == 1..MaxDownloads
Images == 1..MaxImages
Callers == 1..MaxCallers
Batches == 1..MaxBatches

\* ------------------------------------------------------- program constants

\* route.js:125  if (fileSize > 500000)
SmartThreshold == 500000
\* route.js:237  Math.min(Math.round(progress.percent || 0), 99)
ProgressCap == 99
\* route.js:266  progress: 100
ProgressDone == 100

\* ------------------------------------------------------------- sentinels

\* An optional value is a sequence of length 0 (absent) or 1 (present).
None == << >>
Some(v) == << v >>
\* formData.get('batchId') || null
NoBatch == 0
\* formData.get('qualityPreset') of a request that carries none
Omitted == ""

\* A collection or a directory is a function from the keys present in it.
Put(fn, k, v) == (k :> v) @@ fn
Del(fn, k) == [x \in DOMAIN fn \ {k} |-> fn[x]]

\* ------------------------------------------------------- QUALITY_PRESETS

KnownPresets == {"high-quality", "balanced", "maximum-compression"}

QUALITY_PRESETS ==
  [p \in KnownPresets |->
     CASE p = "high-quality" ->
            [name |-> "High Quality", quality |-> 95, format |-> "preserve",
             crf |-> 18, preset |-> "slow", audioBitrate |-> 192]
       [] p = "balanced" ->
            [name |-> "Balanced", quality |-> 85, format |-> "smart",
             crf |-> 23, preset |-> "medium", audioBitrate |-> 128]
       [] p = "maximum-compression" ->
            [name |-> "Maximum Compression", quality |-> 75, format |-> "smart",
             crf |-> 28, preset |-> "fast", audioBitrate |-> 96]]

\* A preset lookup that is undefined in the source (QUALITY_PRESETS[x] for an
\* unknown x) makes the following property access throw a TypeError.
PresetDefined(p) == p \in KnownPresets

\* formData.get('qualityPreset') || 'balanced': only a missing (null) or
\* empty value is replaced; any other string is passed through unchanged.
FormPreset(raw) == IF raw = Omitted THEN "balanced" ELSE raw

\* ---------------------------------------------------------- pure helpers

\* Math.round of a value given in tenths: rounds half towards +infinity.
RoundTenths(t) == (t + 5) \div 10

Min(a, b) == IF a < b THEN a ELSE b

\* The progress handler's progressPercent. percent is given in tenths of a
\* percent, or None when ffmpeg reports no percent (progress.percent || 0).
ProgressPercent(percent) ==
  Min(RoundTenths(IF percent = None THEN 0 ELSE percent[1]), ProgressCap)

\* Math.round((1 - compressedSize / originalSize) * 100), originalSize > 0.
\* Mutant: the percentage is truncated downwards instead of rounded.
CompressionRatioTruncating(compressedSize, originalSize) ==
  (100 * (originalSize - compressedSize)) \div originalSize

CompressionRatio(compressedSize, originalSize) ==
  (2 * 100 * (originalSize - compressedSize) + originalSize) \div (2 * originalSize)

\* Mutant: the size test admits the threshold itself (>= for >).
GetOptimalFormatAtThreshold(originalFormat, fileSize, qualityPreset) ==
  LET preset == QUALITY_PRESETS[qualityPreset] IN
  IF preset.format # "smart"
  THEN (IF originalFormat = "image/png" THEN "png" ELSE "jpeg")
  ELSE IF originalFormat = "image/png"
       THEN (IF fileSize >= SmartThreshold THEN "jpeg" ELSE "png")
       ELSE "jpeg"

\* getOptimalFormat(originalFormat, fileSize, qualityPreset), for a defined
\* preset.
GetOptimalFormat(originalFormat, fileSize, qualityPreset) ==
  LET preset == QUALITY_PRESETS[qualityPreset] IN
  IF preset.format # "smart"
  THEN (IF originalFormat = "image/png" THEN "png" ELSE "jpeg")
  ELSE IF originalFormat = "image/png"
       THEN (IF fileSize > SmartThreshold THEN "jpeg" ELSE "png")
       ELSE "jpeg"

\* compressImage's originalFormat: fileName.toLowerCase().includes('.png')
OriginalFormat(nameHasPng) == IF nameHasPng THEN "image/png" ELSE "image/jpeg"

\* ------------------------------------------------------------------ state

VARIABLES
  store,     \* collection compression_progress: fileId -> the first document
             \* with that fileId, the one findOne, updateOne and replaceOne
             \* act on
  dups,      \* fileId -> the number of further documents with that fileId
  job,       \* one entry per POST /compress/video request and its ffmpeg run
  writes,    \* updateOne calls issued by the callbacks and not yet applied
  inFiles,   \* temporary input files present: path -> job that wrote it
  outFiles,  \* output files present: fileId -> [job, final, size]
  lastPoll,  \* the last answer a polling client got from
             \* GET /compress/progress/{fileId}
  dl,        \* one entry per GET /download/{fileId} request
  timers,    \* retention timers set by downloads and not yet fired
  expired,   \* fileIds whose output a retention timer deleted, until the
             \* next ffmpeg run for that fileId starts
  batch,     \* collection batch_progress: batchId -> document
  img,       \* one entry per POST /compress/image request
  mongo,     \* the module's client and db bindings and the calls of
             \* connectToMongo
  page       \* the web client: its files state, the files the memoized
             \* processFiles sees, and its upload requests

vars == << store, dups, job, writes, inFiles, outFiles, lastPoll, dl, timers,
           expired, batch, img, mongo, page >>

\* Inputs of the requests and of the codec.
PresetInputs == {Omitted, "ultra"}
OrigSizes == {1000}
CompressedSizes == {400}
PercentInputs == {None, Some(404), Some(995)}
ErrorMessages == {"ffmpeg exited with code 1"}
BatchInputs == {NoBatch}

IdleJob ==
  [pc |-> "idle", fileId |-> 1, rawPreset |-> Omitted,
   qualityPreset |-> "balanced", originalSize |-> 0, compressedSize |-> 0,
   batchId |-> NoBatch, nprog |-> 0, http |-> 0, dropped |-> 0,
   ext |-> << >>]

IdleImage ==
  [pc |-> "idle", fileId |-> 1, rawPreset |-> Omitted,
   qualityPreset |-> "balanced", originalSize |-> 0, compressedSize |-> 0,
   batchId |-> NoBatch, originalFormat |-> "", outputFormat |-> "",
   ratio |-> 0, code |-> 0]

IdleDownload ==
  [pc |-> "idle", fileId |-> 1, code |-> 0, bytes |-> None, sawStatus |-> "",
   runs |-> 0, afterExpiry |-> FALSE]

Init ==
  /\ store = << >>
  /\ dups = [f \in FileIds |-> 0]
  /\ job = [j \in Jobs |-> IdleJob]
  /\ writes = {}
  /\ inFiles = << >>
  /\ outFiles = << >>
  /\ lastPoll = [fileId |-> 0, code |-> 0, status |-> "", progress |-> 0,
                 error |-> None]
  /\ dl = [d \in Downloads |-> IdleDownload]
  /\ timers = {}
  /\ expired = {}
  /\ batch = << >>
  /\ img = [i \in Images |-> IdleImage]
  /\ mongo = [client |-> FALSE, db |-> FALSE,
              call |-> [c \in Callers |-> [pc |-> "idle", got |-> ""]]]
  /\ page = [files |-> << >>, captured |-> << >>, qualityPreset |-> "balanced",
             requests |-> << >>]

\* ------------------------------------------------------- store operations

\* The document of the initial replaceOne({fileId}, {...}, {upsert: true}).
InitialRecord(originalSize, qualityPreset) ==
  [status |-> "processing", progress |-> 0, startTime |-> TRUE,
   originalSize |-> originalSize,
   qualityPreset |-> qualityPreset, compressedSize |-> None,
   compressionRatio |-> None, endTime |-> FALSE, error |-> None,
   downloadUrl |-> FALSE]

\* Mutant: the initial write is an insertOne, so a fileId that already has a
\* document gets a second one and the reads keep finding the first.
InsertOne(st, dp, f, doc) ==
  IF f \in DOMAIN st
  THEN [store |-> st, dups |-> [dp EXCEPT ![f] = @ + 1]]
  ELSE [store |-> Put(st, f, doc), dups |-> dp]

\* replaceOne({fileId}, doc, {upsert: true}): the first document with that
\* fileId is replaced as a whole, or doc is inserted when there is none.
ReplaceOne(st, dp, f, doc) ==
  [store |-> Put(st, f, doc), dups |-> dp]

\* $set of the progress callback.
ProgressSet(rec, w) ==
  [rec EXCEPT !.progress = w.n, !.status = "processing"]

\* $set of the end callback.
CompletedSet(rec, w) ==
  [rec EXCEPT !.status = "completed", !.progress = ProgressDone,
              !.compressedSize = Some(w.n), !.compressionRatio = Some(w.ratio),
              !.endTime = TRUE, !.downloadUrl = TRUE]

\* $set of the error callback.
ErrorSet(rec, w) ==
  [rec EXCEPT !.status = "error", !.error = Some(w.msg), !.endTime = TRUE]

\* Mutant: the filter is lost, so the update goes to the first document of
\* the collection.
UpdateOneUnfiltered(st, f, w) ==
  IF DOMAIN st = {} THEN st
  ELSE LET g == CHOOSE x \in DOMAIN st : \A y \in DOMAIN st : x <= y IN
       Put(st, g, CASE w.kind = "progress" -> ProgressSet(st[g], w)
                    [] w.kind = "completed" -> CompletedSet(st[g], w)
                    [] w.kind = "error" -> ErrorSet(st[g], w))

\* updateOne({fileId}, {$set: ...}) without upsert: a no-op when no document
\* matches.
UpdateOne(st, f, w) ==
  IF f \notin DOMAIN st THEN st
  ELSE Put(st, f, CASE w.kind = "progress" -> ProgressSet(st[f], w)
                    [] w.kind = "completed" -> CompletedSet(st[f], w)
                    [] w.kind = "error" -> ErrorSet(st[f], w))

Write(j, kind, n, ratio, msg) ==
  [job |-> j, kind |-> kind, n |-> n, ratio |-> ratio, msg |-> msg]

\* ------------------------------------------------- POST /compress/video

\* Texts are sequences of pieces, no piece a prefix of another, so two texts
\* are the same string exactly when they are the same sequence. The form's
\* fileId is any text the client sends: the first id is "a", each further id
\* is the one before it followed by ".mp4".
RECURSIVE IdText(_)
IdText(f) == IF f = 1 THEN << "a" >> ELSE IdText(f - 1) \o << ".mp4" >>

\* path.extname(fileName).toLowerCase(): empty for a name without a dot.
ExtInputs == {<< >>, << ".mp4" >>}
Mp4Ext == << ".mp4" >>

\* `input_${fileId}${fileExt}` and `output_${fileId}.mp4` in the temp
\* directory. No id holds a path separator, so path.join leaves the names as
\* they are, and the output path is one-to-one in the fileId.
InputPath(f, ext) == << "input_" >> \o IdText(f) \o ext
OutputPath(f) == << "output_" >> \o IdText(f) \o << ".mp4" >>

\* The request handler up to its response. file is the form's 'file' entry:
\* None when the form has none, else Some(its size in bytes). Without a file
\* getFileFromFormData throws and the route's catch answers 500 with the
\* message. Otherwise the input file is written, compressVideo called without
\* being awaited, and 200 returned; compressVideo's body stops at its first
\* await, before the initial write. ext is the extension of the file's name.
SubmitVideoNamed(j, f, raw, file, ext, b) ==
  /\ job[j].pc = "idle"
  /\ \A i \in Jobs : i < j => job[i].pc # "idle"
  /\ \A g \in FileIds : g < f => \E i \in Jobs : job[i].pc # "idle" /\ job[i].fileId = g
  /\ IF file = None
     THEN /\ job' = [job EXCEPT ![j] =
                       [pc |-> "rejected", fileId |-> f, rawPreset |-> raw,
                        qualityPreset |-> FormPreset(raw), originalSize |-> 0,
                        compressedSize |-> 0, batchId |-> b, nprog |-> 0,
                        http |-> 500, dropped |-> 0, ext |-> ext]]
          /\ UNCHANGED inFiles
     ELSE /\ job' = [job EXCEPT ![j] =
                       [pc |-> "setup", fileId |-> f, rawPreset |-> raw,
                        qualityPreset |-> FormPreset(raw),
                        originalSize |-> file[1], compressedSize |-> 0,
                        batchId |-> b, nprog |-> 0, http |-> 200,
                        dropped |-> 0, ext |-> ext]]
          /\ inFiles' = Put(inFiles, InputPath(f, ext), j)
  /\ UNCHANGED << mongo, page, dups, store, writes, outFiles, lastPoll, dl, timers, expired, batch, img >>

\* The request of a file whose name ends in .mp4.
SubmitVideo(j, f, raw, file, b) == SubmitVideoNamed(j, f, raw, file, Mp4Ext, b)

\* compressVideo after connectToMongo: the preset lookup, the initial
\* replaceOne and the start of ffmpeg, which creates the output file.
SetupVideo(j) ==
  /\ job[j].pc = "setup"
  /\ IF PresetDefined(job[j].qualityPreset)
     THEN LET r == ReplaceOne(store, dups, job[j].fileId,
                              InitialRecord(job[j].originalSize,
                                            job[j].qualityPreset)) IN
          /\ store' = r.store
          /\ dups' = r.dups
          /\ outFiles' = Put(outFiles, job[j].fileId,
                             [job |-> j, final |-> FALSE, size |-> 0])
          /\ job' = [job EXCEPT ![j].pc = "running"]
     ELSE \* preset.name throws: reject(error), caught by .catch(console.error)
          /\ job' = [job EXCEPT ![j].pc = "setup-failed"]
          /\ UNCHANGED << store, dups, outFiles >>
  /\ expired' = IF PresetDefined(job[j].qualityPreset)
                THEN expired \ {job[j].fileId} ELSE expired
  /\ UNCHANGED << mongo, page, writes, inFiles, lastPoll, dl, timers, batch, img >>

\* on('progress'): the handler issues its updateOne.
CodecProgress(j, percent) ==
  /\ job[j].pc = "running"
  /\ job[j].nprog < MaxProgress
  /\ writes' = writes \cup {Write(j, "progress", ProgressPercent(percent), 0, "")}
  /\ job' = [job EXCEPT ![j].nprog = @ + 1]
  /\ UNCHANGED << mongo, page, dups, store, inFiles, outFiles, lastPoll, dl, timers, expired, batch, img >>

\* ffmpeg exits successfully: the output file is final and 'end' is emitted.
CodecEnd(j, csize) ==
  /\ job[j].pc = "running"
  /\ outFiles' = IF job[j].fileId \in DOMAIN outFiles
                 THEN Put(outFiles, job[j].fileId,
                          [job |-> j, final |-> TRUE, size |-> csize])
                 ELSE outFiles  \* the path was unlinked while ffmpeg wrote
  /\ job' = [job EXCEPT ![j].pc = "ended"]
  /\ UNCHANGED << mongo, page, dups, store, writes, inFiles, lastPoll, dl, timers, expired, batch, img >>

\* on('end') after fs.stat: the completion updateOne is issued, or stat throws
\* and the promise is rejected.
EndStat(j) ==
  /\ job[j].pc = "ended"
  /\ IF job[j].fileId \in DOMAIN outFiles
     THEN LET csize == outFiles[job[j].fileId].size IN
          /\ writes' = writes \cup
               {Write(j, "completed", csize,
                      CompressionRatio(csize, job[j].originalSize), "")}
          /\ job' = [job EXCEPT ![j].pc = "completing",
                                 ![j].compressedSize = csize]
     ELSE /\ job' = [job EXCEPT ![j].pc = "end-failed"]
          /\ UNCHANGED writes
  /\ UNCHANGED << mongo, page, dups, store, inFiles, outFiles, lastPoll, dl, timers, expired, batch, img >>

\* ffmpeg fails: on('error') issues the error updateOne.
CodecError(j, msg) ==
  /\ job[j].pc = "running"
  /\ writes' = writes \cup {Write(j, "error", 0, 0, msg)}
  /\ job' = [job EXCEPT ![j].pc = "erroring"]
  /\ UNCHANGED << mongo, page, dups, store, inFiles, outFiles, lastPoll, dl, timers, expired, batch, img >>

\* The store applies one of the issued updates; the handler awaiting it
\* continues (resolve after the completion write, cleanup after the error
\* write).
ApplyWrite(w) ==
  /\ w \in writes
  /\ writes' = writes \ {w}
  /\ store' = UpdateOne(store, job[w.job].fileId, w)
  /\ job' = [job EXCEPT ![w.job].pc =
                CASE w.kind = "completed" -> "resolved"
                  [] w.kind = "error" -> "cleanup"
                  [] OTHER -> @]
  /\ UNCHANGED << mongo, page, dups, inFiles, outFiles, lastPoll, dl, timers, expired, batch, img >>

\* Mutant: a failed progress write rejects the job's promise.
OnWriteFailureRejecting(kind, pc) ==
  CASE kind = "progress" -> "failed"
    [] kind = "completed" -> "end-failed"
    [] kind = "error" -> "cleanup"

\* Where a handler continues when its updateOne throws: the progress
\* handler's catch only logs, the end handler's catch rejects the promise,
\* the error handler's inner catch logs and the cleanup follows.
OnWriteFailure(kind, pc) ==
  CASE kind = "progress" -> pc
    [] kind = "completed" -> "end-failed"
    [] kind = "error" -> "cleanup"

\* The store fails one of the issued updates: the record is not written and
\* the awaiting handler gets the exception.
FailWrite(w) ==
  /\ w \in writes
  /\ writes' = writes \ {w}
  /\ job' = [job EXCEPT ![w.job].pc = OnWriteFailure(w.kind, @),
                         ![w.job].dropped =
                           IF w.kind = "progress" THEN @ + 1 ELSE @]
  /\ UNCHANGED << mongo, page, store, dups, inFiles, outFiles, lastPoll, dl, timers, expired,
                  batch, img >>

\* on('error') after its write: both temporary files are unlinked, then reject.
ErrorCleanup(j) ==
  /\ job[j].pc = "cleanup"
  /\ inFiles' = Del(inFiles, InputPath(job[j].fileId, job[j].ext))
  /\ outFiles' = Del(outFiles, job[j].fileId)
  /\ job' = [job EXCEPT ![j].pc = "failed"]
  /\ UNCHANGED << mongo, page, dups, store, writes, lastPoll, dl, timers, expired, batch, img >>

\* The .then of compressVideo in the route: analytics.insertOne, after which
\* the batch update follows when the request carried a batchId.
ThenAnalytics(j) ==
  /\ job[j].pc = "resolved"
  /\ job' = [job EXCEPT ![j].pc = IF job[j].batchId # NoBatch THEN "batch" ELSE "done"]
  /\ UNCHANGED << mongo, page, dups, store, writes, inFiles, outFiles, lastPoll, dl, timers, expired,
                  batch, img >>

\* ------------------------------------------------------------ batch_progress

\* The document of POST /batch/start.
BatchRecord(fileCount) ==
  [fileCount |-> fileCount, processedFiles |-> 0, totalSaved |-> 0,
   status |-> "processing", files |-> << >>]

\* POST /batch/start: insertOne under a fresh uuid.
BatchStart(b, fileCount) ==
  /\ b \notin DOMAIN batch
  /\ \A c \in Batches : c < b => c \in DOMAIN batch
  /\ batch' = Put(batch, b, BatchRecord(fileCount))
  /\ UNCHANGED << mongo, page, dups, store, job, writes, inFiles, outFiles, lastPoll, dl, timers,
                  expired, img >>

\* Mutant: the saving is added unclamped, so a grown file is subtracted.
BatchIncUnclamped(rec, f, originalSize, compressedSize) ==
  LET savedBytes == originalSize - compressedSize IN
  [rec EXCEPT !.processedFiles = @ + 1,
              !.totalSaved = @ + savedBytes,
              !.files = Append(@, [fileId |-> f, saved |-> savedBytes])]

\* The update document of both routes: $inc of processedFiles and of the
\* clamped saving, $push of the file's summary.
BatchInc(rec, f, originalSize, compressedSize) ==
  LET savedBytes == originalSize - compressedSize IN
  [rec EXCEPT !.processedFiles = @ + 1,
              !.totalSaved = @ + (IF savedBytes > 0 THEN savedBytes ELSE 0),
              !.files = Append(@, [fileId |-> f, saved |-> savedBytes])]

\* Mutant: the handler writes counters it computed from the document as it
\* was when the batch started, so concurrent completions overwrite each other.
BatchUpdateOneOverwriting(bt, b, f, originalSize, compressedSize) ==
  IF b \notin DOMAIN bt THEN bt
  ELSE Put(bt, b, BatchInc(BatchRecord(bt[b].fileCount), f, originalSize,
                           compressedSize))

\* batch_progress.updateOne({batchId}, ...): one atomic update of the
\* document, a no-op when none matches.
BatchUpdateOne(bt, b, f, originalSize, compressedSize) ==
  IF b \notin DOMAIN bt THEN bt
  ELSE Put(bt, b, BatchInc(bt[b], f, originalSize, compressedSize))

\* The video route's batch update, after the analytics insert.
ThenBatch(j) ==
  /\ job[j].pc = "batch"
  /\ batch' = BatchUpdateOne(batch, job[j].batchId, job[j].fileId,
                             job[j].originalSize, job[j].compressedSize)
  /\ job' = [job EXCEPT ![j].pc = "done"]
  /\ UNCHANGED << mongo, page, dups, store, writes, inFiles, outFiles, lastPoll, dl, timers, expired,
                  img >>

\* --------------------------------------------------- POST /compress/image

\* The form is parsed and compressImage called: an undefined preset throws
\* (500), otherwise the output format is chosen and sharp is started.
ImageSubmit(i, f, raw, size, nameHasPng, b) ==
  /\ img[i].pc = "idle"
  /\ \A h \in Images : h < i => img[h].pc # "idle"
  /\ LET qp == FormPreset(raw)
         of == OriginalFormat(nameHasPng) IN
     img' = [img EXCEPT ![i] =
       [pc |-> IF PresetDefined(qp) THEN "compress" ELSE "done",
        fileId |-> f, rawPreset |-> raw, qualityPreset |-> qp,
        originalSize |-> size, compressedSize |-> 0, batchId |-> b,
        originalFormat |-> of,
        outputFormat |-> IF PresetDefined(qp) THEN GetOptimalFormat(of, size, qp)
                         ELSE "",
        ratio |-> 0,
        code |-> IF PresetDefined(qp) THEN 0 ELSE 500]]
  /\ UNCHANGED << mongo, page, dups, store, job, writes, inFiles, outFiles, lastPoll, dl, timers,
                  expired, batch >>

\* sharp returns the compressed buffer; the analytics document is built.
ImageCodec(i, csize) ==
  /\ img[i].pc = "compress"
  /\ img' = [img EXCEPT ![i].pc = "analytics", ![i].compressedSize = csize,
                         ![i].ratio = CompressionRatio(csize, img[i].originalSize)]
  /\ UNCHANGED << mongo, page, dups, store, job, writes, inFiles, outFiles, lastPoll, dl, timers,
                  expired, batch >>

\* sharp throws: 'Image compression failed', answered 500.
ImageCodecFail(i) ==
  /\ img[i].pc = "compress"
  /\ img' = [img EXCEPT ![i].pc = "done", ![i].code = 500]
  /\ UNCHANGED << mongo, page, dups, store, job, writes, inFiles, outFiles, lastPoll, dl, timers,
                  expired, batch >>

\* Mutant: the image route also records a job under the image's fileId.
ImageAnalyticsRecording(i) ==
  /\ img[i].pc = "analytics"
  /\ img' = [img EXCEPT ![i].pc = "done", ![i].code = 200]
  /\ store' = Put(store, img[i].fileId, InitialRecord(img[i].originalSize,
                                                 img[i].qualityPreset))
  /\ UNCHANGED << mongo, page, dups, job, writes, inFiles, outFiles, lastPoll, dl, timers,
                  expired, batch >>

\* analytics.insertOne returned; without a batchId the bytes are answered.
ImageAnalytics(i) ==
  /\ img[i].pc = "analytics"
  /\ img' = IF img[i].batchId # NoBatch
            THEN [img EXCEPT ![i].pc = "batch"]
            ELSE [img EXCEPT ![i].pc = "done", ![i].code = 200]
  /\ UNCHANGED << mongo, page, dups, store, job, writes, inFiles, outFiles, lastPoll, dl, timers,
                  expired, batch >>

\* Mutant: the image route's update increments the counters without pushing
\* the file's summary.
ImageBatchCountingOnly(i) ==
  /\ img[i].pc = "batch"
  /\ batch' = Put(batch, img[i].batchId,
                  [batch[img[i].batchId] EXCEPT
                     !.processedFiles = @ + 1,
                     !.totalSaved = @ + (IF img[i].originalSize > img[i].compressedSize
                                         THEN img[i].originalSize - img[i].compressedSize
                                         ELSE 0)])
  /\ img' = [img EXCEPT ![i].pc = "done", ![i].code = 200]
  /\ UNCHANGED << mongo, page, dups, store, job, writes, inFiles, outFiles, lastPoll, dl, timers,
                  expired >>

\* The image route's batch update, then the 200 response.
ImageBatch(i) ==
  /\ img[i].pc = "batch"
  /\ batch' = BatchUpdateOne(batch, img[i].batchId, img[i].fileId,
                             img[i].originalSize, img[i].compressedSize)
  /\ img' = [img EXCEPT ![i].pc = "done", ![i].code = 200]
  /\ UNCHANGED << mongo, page, dups, store, job, writes, inFiles, outFiles, lastPoll, dl, timers,
                  expired >>

\* ------------------------------------------ GET /compress/progress/{fileId}

\* Mutant: a fileId without a record is answered with a fresh record.
ObserveDefaulting(st, f) ==
  IF f \in DOMAIN st
  THEN [fileId |-> f, code |-> 200, status |-> st[f].status,
        progress |-> st[f].progress, error |-> st[f].error]
  ELSE [fileId |-> f, code |-> 200, status |-> "processing", progress |-> 0,
        error |-> None]

\* findOne({fileId}) and the answer: the document, or 404 'Progress not found'.
Observe(st, f) ==
  IF f \in DOMAIN st
  THEN [fileId |-> f, code |-> 200, status |-> st[f].status,
        progress |-> st[f].progress, error |-> st[f].error]
  ELSE [fileId |-> f, code |-> 404, status |-> "", progress |-> 0,
        error |-> None]

Poll(f) ==
  /\ lastPoll' = Observe(store, f)
  /\ UNCHANGED << mongo, page, dups, store, job, writes, inFiles, outFiles, dl, timers, expired, batch, img >>

\* ---------------------------------------------------- GET /download/{fileId}

\* The number of ffmpeg runs started so far for a fileId.
Runs(f) ==
  Cardinality({j \in Jobs : job[j].fileId = f
                 /\ job[j].pc \notin {"idle", "setup", "setup-failed"}})

\* Mutant: only a missing record is refused.
NotReadyOnlyWhenMissing(st, f) == f \notin DOMAIN st

\* if (!progress || progress.status !== 'completed')
NotReady(st, f) == f \notin DOMAIN st \/ st[f].status # "completed"

\* Mutant: the existence check is skipped.
AccessibleUnchecked(files, f) == TRUE

\* fs.access(outputPath) succeeds
Accessible(files, f) == f \in DOMAIN files

\* findOne and the status check: 404 unless the record is completed.
DownloadFind(d, f) ==
  /\ dl[d].pc = "idle"
  /\ \A e \in Downloads : e < d => dl[e].pc # "idle"
  /\ dl' = [dl EXCEPT ![d] =
       [pc |-> IF NotReady(store, f) THEN "done" ELSE "access",
        fileId |-> f,
        code |-> IF NotReady(store, f) THEN 404 ELSE 0,
        bytes |-> None,
        sawStatus |-> IF f \in DOMAIN store THEN store[f].status ELSE "not found",
        runs |-> Runs(f),
        afterExpiry |-> f \in expired]]
  /\ UNCHANGED << mongo, page, dups, store, job, writes, inFiles, outFiles, lastPoll, timers, expired, batch, img >>

\* fs.access: 404 'Compressed file not found' when the output is missing.
DownloadAccess(d) ==
  /\ dl[d].pc = "access"
  /\ dl' = IF Accessible(outFiles, dl[d].fileId)
           THEN [dl EXCEPT ![d].pc = "read"]
           ELSE [dl EXCEPT ![d].pc = "done", ![d].code = 404]
  /\ UNCHANGED << mongo, page, dups, store, job, writes, inFiles, outFiles, lastPoll, timers, expired, batch, img >>

\* fs.readFile, setTimeout(unlink, 5 min) and the 200 response; a readFile
\* that throws is answered 500 by the route's catch.
DownloadRead(d) ==
  /\ dl[d].pc = "read"
  /\ IF dl[d].fileId \in DOMAIN outFiles
     THEN /\ dl' = [dl EXCEPT ![d].pc = "done", ![d].code = 200,
                              ![d].bytes = Some(outFiles[dl[d].fileId])]
          /\ timers' = timers \cup {[fileId |-> dl[d].fileId, by |-> d]}
     ELSE /\ dl' = [dl EXCEPT ![d].pc = "done", ![d].code = 500]
          /\ UNCHANGED timers
  /\ UNCHANGED << mongo, page, dups, store, job, writes, inFiles, outFiles, lastPoll, expired, batch, img >>

\* The retention timer fires: fs.unlink(outputPath).catch(console.error).
TimerFire(t) ==
  /\ t \in timers
  /\ timers' = timers \ {t}
  /\ outFiles' = Del(outFiles, t.fileId)
  /\ expired' = IF t.fileId \in DOMAIN outFiles THEN expired \cup {t.fileId}
                ELSE expired
  /\ UNCHANGED << mongo, page, dups, store, job, writes, inFiles, lastPoll, dl, batch, img >>

\* ------------------------------------------------------------ connectToMongo

\* A call of connectToMongo up to its first await or its return. With no
\* client yet the client is created and assigned, and the call waits for
\* client.connect(); with a client, whatever db holds is returned at once.
\* The actions of the routes above are the handlers after a call that
\* returned the database.
ConnectCall(c) ==
  /\ mongo.call[c].pc = "idle"
  /\ \A b \in Callers : b < c => mongo.call[b].pc # "idle"
  /\ mongo' = IF ~mongo.client
              THEN [mongo EXCEPT !.client = TRUE, !.call[c].pc = "connecting"]
              ELSE [mongo EXCEPT !.call[c].pc = "returned",
                                 !.call[c].got = IF mongo.db THEN "db"
                                                 ELSE "undefined"]
  /\ UNCHANGED << store, dups, job, writes, inFiles, outFiles, lastPoll, dl,
                  timers, expired, batch, img, page >>

\* client.connect() settles: db is assigned and returned, or the call throws
\* and client stays assigned.
ConnectSettle(c, ok) ==
  /\ mongo.call[c].pc = "connecting"
  /\ mongo' = IF ok
              THEN [mongo EXCEPT !.db = TRUE, !.call[c].pc = "returned",
                                 !.call[c].got = "db"]
              ELSE [mongo EXCEPT !.call[c].pc = "threw"]
  /\ UNCHANGED << store, dups, job, writes, inFiles, outFiles, lastPoll, dl,
                  timers, expired, batch, img, page >>

\* The caller uses what it got: db.collection(...) on a database, a
\* TypeError on undefined, which handleRoute's catch answers with 500.
UseDb(c) ==
  /\ mongo.call[c].pc = "returned"
  /\ mongo' = [mongo EXCEPT !.call[c].pc =
                 IF mongo.call[c].got = "db" THEN "served" ELSE "500"]
  /\ UNCHANGED << store, dups, job, writes, inFiles, outFiles, lastPoll, dl,
                  timers, expired, batch, img, page >>

\* ------------------------------------------------------------ web client

\* Math.random().toString(36).substr(2, 9): nothing keeps two ids apart.
ClientIds == {1, 2}
FileTypes == {"image", "video"}

\* prev.map(f => f.id === fileId ? {...f, status} : f)
MarkFiles(files, id, status) ==
  [k \in 1..Len(files) |->
     IF files[k].id = id THEN [files[k] EXCEPT !.status = status] ELSE files[k]]

\* files.find(f => f.id === fileId): the index of the first match, 0 for
\* undefined.
FindFile(files, id) ==
  IF \E k \in 1..Len(files) : files[k].id = id
  THEN CHOOSE k \in 1..Len(files) :
         files[k].id = id /\ \A h \in 1..(k - 1) : files[h].id # id
  ELSE 0

\* processFiles for one file, with the startCompression it calls up to its
\* first await. An unsupported or oversized file becomes an error entry. Any
\* other is appended as pending and startCompression marks it processing;
\* it then looks the id up in files as the memoized processFiles captured
\* it, returns when there is none, and else posts that entry's file.
ProcessFiles(id, type, supported) ==
  /\ Len(page.files) < MaxEntries
  /\ LET appended == Append(page.files,
                            [id |-> id, type |-> type,
                             status |-> IF supported THEN "pending" ELSE "error"])
         found == FindFile(page.captured, id) IN
     page' = IF ~supported THEN [page EXCEPT !.files = appended]
             ELSE [page EXCEPT
                     !.files = MarkFiles(appended, id, "processing"),
                     !.requests =
                        IF found = 0 THEN @
                        ELSE Put(@, Len(appended),
                                 [fileId |-> id,
                                  type |-> page.captured[found].type,
                                  pc |-> "sent"])]
  /\ UNCHANGED << store, dups, job, writes, inFiles, outFiles, lastPoll, dl,
                  timers, expired, batch, img, mongo >>

\* The user picks another preset: the component renders again and
\* processFiles is memoized anew, over the files of that render.
SetQualityPreset(p) ==
  /\ p # page.qualityPreset
  /\ page' = [page EXCEPT !.qualityPreset = p, !.captured = page.files]
  /\ UNCHANGED << store, dups, job, writes, inFiles, outFiles, lastPoll, dl,
                  timers, expired, batch, img, mongo >>

\* The upload's response: not ok throws into the catch, which sets the
\* entry to error; an image's bytes complete the entry; a video starts the
\* progress polling.
UploadResponse(n, ok) ==
  /\ n \in DOMAIN page.requests
  /\ page.requests[n].pc = "sent"
  /\ LET r == page.requests[n] IN
     page' = IF ~ok
             THEN [page EXCEPT !.files = MarkFiles(@, r.fileId, "error"),
                               !.requests[n].pc = "done"]
             ELSE IF r.type = "image"
             THEN [page EXCEPT !.files = MarkFiles(@, r.fileId, "completed"),
                               !.requests[n].pc = "done"]
             ELSE [page EXCEPT !.requests[n].pc = "polling"]
  /\ UNCHANGED << store, dups, job, writes, inFiles, outFiles, lastPoll, dl,
                  timers, expired, batch, img, mongo >>

\* A tick of the polling interval that reads a terminal status: the entry
\* takes it and the interval is cleared. (A tick that reads processing only
\* copies the progress number.)
PollTick(n, status) ==
  /\ n \in DOMAIN page.requests
  /\ page.requests[n].pc = "polling"
  /\ page' = [page EXCEPT
                !.files = MarkFiles(@, page.requests[n].fileId, status),
                !.requests[n].pc = "done"]
  /\ UNCHANGED << store, dups, job, writes, inFiles, outFiles, lastPoll, dl,
                  timers, expired, batch, img, mongo >>

\* Thirty minutes after the polling started the interval is cleared.
PollTimeout(n) ==
  /\ n \in DOMAIN page.requests
  /\ page.requests[n].pc = "polling"
  /\ page' = [page EXCEPT !.requests[n].pc = "stopped"]
  /\ UNCHANGED << store, dups, job, writes, inFiles, outFiles, lastPoll, dl,
                  timers, expired, batch, img, mongo >>

\* ------------------------------------------------------------ behaviours

\* A video job from its request to its terminal callback, for the given
\* request and codec inputs.
Terminal(jobs, files, presets, csizes, batches) ==
  \/ \E j \in jobs, f \in files, raw \in presets, size \in OrigSizes,
        b \in batches : SubmitVideo(j, f, raw, Some(size), b)
  \/ \E j \in jobs : SetupVideo(j)
  \/ \E j \in jobs, c \in csizes : CodecEnd(j, c)
  \/ \E j \in jobs : EndStat(j)
  \/ \E j \in jobs, m \in ErrorMessages : CodecError(j, m)
  \/ \E w \in writes : ApplyWrite(w)
  \/ \E j \in jobs : ErrorCleanup(j)
  \/ \E j \in jobs : ThenAnalytics(j)

\* The same with the codec's progress events.
Lifecycle(presets, percents, csizes, batches) ==
  \/ Terminal(Jobs, FileIds, presets, csizes, batches)
  \/ \E j \in Jobs, p \in percents : CodecProgress(j, p)

\* Video jobs and their callbacks.
Next == Lifecycle(PresetInputs, PercentInputs, CompressedSizes, BatchInputs)

Spec == Init /\ [][Next]_vars

\* Video jobs observed by a polling client.
NextPoll ==
  \/ Lifecycle({"balanced"}, PercentInputs, CompressedSizes, BatchInputs)
  \/ \E f \in FileIds : Poll(f)

SpecPoll == Init /\ [][NextPoll]_vars

\* Video jobs on one fileId, downloads and retention timers.
NextDownload ==
  \/ Terminal(1..MaxDownloadJobs, {1}, {Omitted}, CompressedSizes, BatchInputs)
  \/ \E d \in Downloads, f \in FileIds : DownloadFind(d, f)
  \/ \E d \in Downloads : DownloadAccess(d)
  \/ \E d \in Downloads : DownloadRead(d)
  \/ \E t \in timers : TimerFire(t)

SpecDownload == Init /\ [][NextDownload]_vars

\* Batches: the completions of one video and of the images updating the
\* shared counters.
BatchCompressedSizes == {900, 800, 1050}

NextBatch ==
  \/ \E b \in Batches, n \in {3} : BatchStart(b, n)
  \/ Terminal({1}, {1}, {"balanced"}, BatchCompressedSizes, DOMAIN batch)
  \/ ThenBatch(1)
  \/ \E i \in Images, size \in OrigSizes, b \in DOMAIN batch :
        ImageSubmit(i, 1, "balanced", size, FALSE, b)
  \/ \E i \in Images, c \in BatchCompressedSizes : ImageCodec(i, c)
  \/ \E i \in Images : ImageCodecFail(i)
  \/ \E i \in Images : ImageAnalytics(i)
  \/ \E i \in Images : ImageBatch(i)

SpecBatch == Init /\ [][NextBatch]_vars

\* The submit paths of both routes, over presets, formats and sizes.
ImageSizes == {400000, 500000, 500001, 600000}
ImagePresetInputs == {Omitted, "ultra"} \cup KnownPresets
ImageCompressedSizes == {300000}

NextSubmit ==
  \/ \E i \in Images, raw \in ImagePresetInputs, size \in ImageSizes,
        png \in BOOLEAN : ImageSubmit(i, 1, raw, size, png, NoBatch)
  \/ \E i \in Images, c \in ImageCompressedSizes : ImageCodec(i, c)
  \/ \E i \in Images : ImageCodecFail(i)
  \/ \E i \in Images : ImageAnalytics(i)
  \/ \E j \in Jobs, raw \in PresetInputs, size \in OrigSizes :
        SubmitVideo(j, 1, raw, Some(size), NoBatch)
  \/ \E j \in Jobs : SetupVideo(j)

SpecSubmit == Init /\ [][NextSubmit]_vars

\* Image requests alone, over presets, formats and sizes.
NextFormat ==
  \/ \E i \in Images, raw \in KnownPresets \cup {"ultra"}, size \in ImageSizes,
        png \in BOOLEAN : ImageSubmit(i, 1, raw, size, png, NoBatch)
  \/ \E i \in Images, c \in ImageCompressedSizes : ImageCodec(i, c)
  \/ \E i \in Images : ImageCodecFail(i)
  \/ \E i \in Images : ImageAnalytics(i)

SpecFormat == Init /\ [][NextFormat]_vars

\* Submits with and without a file, up to a failure of the codec.
FileInputs == {None, Some(0), Some(1000)}

NextValidate ==
  \/ \E j \in Jobs, f \in FileIds, file \in FileInputs :
        SubmitVideo(j, f, Omitted, file, NoBatch)
  \/ \E j \in Jobs : SetupVideo(j)
  \/ \E j \in Jobs, m \in ErrorMessages : CodecError(j, m)
  \/ \E w \in writes : ApplyWrite(w)
  \/ \E j \in Jobs : ErrorCleanup(j)

SpecValidate == Init /\ [][NextValidate]_vars

\* One video job and a polling client.
NextRead ==
  \/ Terminal({1}, {1}, {Omitted}, CompressedSizes, BatchInputs)
  \/ \E p \in PercentInputs : CodecProgress(1, p)
  \/ \E f \in FileIds : Poll(f)

SpecRead == Init /\ [][NextRead]_vars

\* Two video jobs on any fileIds, with one kind of progress event.
NextIsolation ==
  \/ Terminal({1, 2}, FileIds, {Omitted}, CompressedSizes, BatchInputs)
  \/ \E j \in {1, 2} : CodecProgress(j, Some(404))

SpecIsolation == Init /\ [][NextIsolation]_vars

\* One video job whose store writes may fail.
NextFault ==
  \/ Terminal({1}, {1}, {Omitted}, CompressedSizes, BatchInputs)
  \/ \E p \in PercentInputs : CodecProgress(1, p)
  \/ \E w \in writes : FailWrite(w)

SpecFault == Init /\ [][NextFault]_vars

\* Video jobs submitted again and again under one fileId.
NextResubmit ==
  Terminal(Jobs, {1}, {Omitted}, CompressedSizes, BatchInputs)

SpecResubmit == Init /\ [][NextResubmit]_vars

\* One video job over the percent values ffmpeg can report: none, zero,
\* negative, in range and above 100 (in tenths of a percent).
CodecPercents == {None, Some(0), Some(-25), Some(404), Some(1234)}

NextProgress ==
  \/ Terminal({1}, {1}, {Omitted}, CompressedSizes, BatchInputs)
  \/ \E p \in CodecPercents : CodecProgress(1, p)

SpecProgress == Init /\ [][NextProgress]_vars

\* Two video jobs under one fileId with their progress events, downloads and
\* retention timers.
NextRetention ==
  \/ Terminal({1, 2}, {1}, {Omitted}, CompressedSizes, BatchInputs)
  \/ \E j \in {1, 2} : CodecProgress(j, Some(404))
  \/ \E d \in Downloads : DownloadFind(d, 1)
  \/ \E d \in Downloads : DownloadAccess(d)
  \/ \E d \in Downloads : DownloadRead(d)
  \/ \E t \in timers : TimerFire(t)

SpecRetention == Init /\ [][NextRetention]_vars

\* Image requests beside one video job, with polls of every fileId.
NextImage ==
  \/ Terminal({1}, {1}, {Omitted}, CompressedSizes, BatchInputs)
  \/ \E i \in Images, f \in FileIds :
       ImageSubmit(i, f, Omitted, 500000, FALSE, NoBatch)
  \/ \E i \in Images, c \in ImageCompressedSizes : ImageCodec(i, c)
  \/ \E i \in Images : ImageCodecFail(i)
  \/ \E i \in Images : ImageAnalytics(i)
  \/ \E f \in FileIds : Poll(f)

SpecImage == Init /\ [][NextImage]_vars

\* One video job and one image over sizes that shrink, stay, grow a little
\* and grow a lot.  No pair of sizes is a rounding tie.
RatioOrigSizes == {3, 1000}
RatioCompressedSizes == {0, 2, 3, 4, 994, 1000, 1001, 1010}

NextRatio ==
  \/ \E size \in RatioOrigSizes : SubmitVideo(1, 1, "balanced", Some(size), NoBatch)
  \/ SetupVideo(1)
  \/ \E c \in RatioCompressedSizes : CodecEnd(1, c)
  \/ EndStat(1)
  \/ \E w \in writes : ApplyWrite(w)
  \/ ThenAnalytics(1)
  \/ \E size \in RatioOrigSizes : ImageSubmit(1, 1, "balanced", size, FALSE, NoBatch)
  \/ \E c \in RatioCompressedSizes : ImageCodec(1, c)
  \/ ImageAnalytics(1)

SpecRatio == Init /\ [][NextRatio]_vars

\* Two video jobs with distinct fileIds, each with a file name with or
\* without an extension, through success and failure.
NextPaths ==
  \/ \E j \in {1, 2}, ext \in ExtInputs :
       SubmitVideoNamed(j, j, Omitted, Some(1000), ext, NoBatch)
  \/ \E j \in {1, 2} : SetupVideo(j)
  \/ \E j \in {1, 2}, c \in CompressedSizes : CodecEnd(j, c)
  \/ \E j \in {1, 2} : EndStat(j)
  \/ \E j \in {1, 2}, m \in ErrorMessages : CodecError(j, m)
  \/ \E w \in writes : ApplyWrite(w)
  \/ \E j \in {1, 2} : ErrorCleanup(j)
  \/ \E j \in {1, 2} : ThenAnalytics(j)

SpecPaths == Init /\ [][NextPaths]_vars

\* Calls of connectToMongo from concurrent requests.
NextConnect ==
  \/ \E c \in Callers : ConnectCall(c)
  \/ \E c \in Callers, ok \in BOOLEAN : ConnectSettle(c, ok)
  \/ \E c \in Callers : UseDb(c)

SpecConnect == Init /\ [][NextConnect]_vars

\* The web client: files are picked one at a time, the preset is changed,
\* uploads are answered and videos polled.
NextPage ==
  \/ \E id \in ClientIds, type \in FileTypes, supported \in BOOLEAN :
       ProcessFiles(id, type, supported)
  \/ \E p \in {"balanced", "high-quality"} : SetQualityPreset(p)
  \/ \E n \in DOMAIN page.requests, ok \in BOOLEAN : UploadResponse(n, ok)
  \/ \E n \in DOMAIN page.requests, status \in {"completed", "error"} :
       PollTick(n, status)
  \/ \E n \in DOMAIN page.requests : PollTimeout(n)

SpecPage == Init /\ [][NextPage]_vars

\* ------------------------------------------------------------------ claims

TerminalStatus == {"completed", "error"}

\* C1: once a record has status completed or error, no later write of a
\* progress, end or error callback changes its status. (The initial write of
\* a new submit of the same fileId, which the spec allows to replace the
\* record, is left out: the claim fails without it.)
C1_TerminalStatusIsFinal ==
  [][(\E w \in writes : ApplyWrite(w)) =>
       \A f \in DOMAIN store :
         store[f].status \in TerminalStatus => store'[f].status = store[f].status]_vars

\* C2: two successive polls of a fileId that both return status processing
\* never see the progress value decrease, whatever percent values the codec
\* reports. (Stated for a fileId that was submitted once: the claim fails
\* without any resubmission.)
C2_PolledProgressMonotonic ==
  [][\A f \in FileIds :
       (Poll(f) /\ lastPoll.fileId = f
          /\ Cardinality({j \in Jobs : job[j].pc # "idle" /\ job[j].fileId = f}) = 1
          /\ lastPoll.code = 200 /\ lastPoll.status = "processing"
          /\ lastPoll'.code = 200 /\ lastPoll'.status = "processing")
       => lastPoll'.progress >= lastPoll.progress]_vars

\* C3: a job record has progress = 100 only if its status is completed.
C3_HundredOnlyWhenCompleted ==
  \A f \in DOMAIN store :
    store[f].progress = ProgressDone => store[f].status = "completed"

\* C4: once POST /compress/video has returned its success response for a
\* fileId, a poll of that fileId returns a record, never 'not found'.
C4_NoAcceptedOnlyState ==
  [][\A f \in FileIds :
       (Poll(f) /\ \E j \in Jobs : job[j].fileId = f /\ job[j].http = 200)
       => lastPoll'.code = 200]_vars

\* C5: GET /download/{fileId} answers 200 with the artifact only when the
\* record it found has status completed and the output file exists; when the
\* record is absent or its status is processing or error it answers 404,
\* serves no bytes and schedules no deletion.
C5_DownloadOnlyWhenCompleted ==
  [][\A d \in Downloads :
       /\ (dl[d].pc = "idle" /\ dl'[d].pc # "idle"
             /\ (dl'[d].fileId \notin DOMAIN store
                   \/ store[dl'[d].fileId].status \in {"processing", "error"}))
          => (dl'[d].pc = "done" /\ dl'[d].code = 404 /\ dl'[d].bytes = None
               /\ timers' = timers)
       /\ (dl[d].code # 200 /\ dl'[d].code = 200)
          => (dl[d].sawStatus = "completed"
               /\ dl[d].fileId \in DOMAIN outFiles
               /\ dl'[d].bytes = Some(outFiles[dl[d].fileId]))
       /\ (dl'[d].code # 200)
          => (dl'[d].bytes = None
               /\ [fileId |-> dl'[d].fileId, by |-> d] \notin timers')
       /\ (dl[d].pc = "done") => (dl'[d] = dl[d])]_vars

\* A download served 200 while another was refused on a record that is
\* absent, processing or error.
C5_Witness ==
  \E d, e \in Downloads :
    /\ dl[d].pc = "done" /\ dl[d].code = 200 /\ dl[d].bytes # None
    /\ dl[e].pc = "done" /\ dl[e].code = 404
    /\ dl[e].sawStatus \in {"not found", "processing", "error"}

\* C6: a GET /download/{fileId} issued after a retention timer deleted the
\* output file, with no new ffmpeg run started for that fileId since, is
\* answered 404 and serves no bytes, although the record is completed.
C6_DownloadAfterCleanupNotFound ==
  [][\A d \in Downloads :
       (dl[d].pc # "done" /\ dl'[d].pc = "done"
          /\ dl'[d].afterExpiry /\ dl'[d].runs = Runs(dl'[d].fileId))
       => (dl'[d].code = 404 /\ dl'[d].bytes = None)]_vars

\* A download issued after the timer's deletion found the record completed
\* and was answered 404.
C6_Witness ==
  \E d \in Downloads :
    /\ dl[d].pc = "done" /\ dl[d].afterExpiry /\ dl[d].sawStatus = "completed"
    /\ dl[d].code = 404
    /\ dl[d].fileId \in DOMAIN store /\ store[dl[d].fileId].status = "completed"
    /\ dl[d].fileId \notin DOMAIN outFiles

\* The requests whose batch update has been applied to batch b, and their
\* clamped savings.
Clamped(saved) == IF saved > 0 THEN saved ELSE 0

JobCounted(j, b) == job[j].pc = "done" /\ job[j].batchId = b
ImageCounted(i, b) == img[i].pc = "done" /\ img[i].code = 200 /\ img[i].batchId = b

CompletedCount(b) ==
  Cardinality({j \in Jobs : JobCounted(j, b)})
    + Cardinality({i \in Images : ImageCounted(i, b)})

CompletedSaved(b) ==
  LET sj[k \in 0..MaxJobs] ==
        IF k = 0 THEN 0
        ELSE sj[k - 1] + (IF JobCounted(k, b)
                          THEN Clamped(job[k].originalSize - job[k].compressedSize)
                          ELSE 0)
      si[k \in 0..MaxImages] ==
        IF k = 0 THEN 0
        ELSE si[k - 1] + (IF ImageCounted(k, b)
                          THEN Clamped(img[k].originalSize - img[k].compressedSize)
                          ELSE 0)
  IN sj[MaxJobs] + si[MaxImages]

\* C7: a batch starts at processedFiles = 0 and totalSaved = 0, and after n
\* of its jobs completed processedFiles = n and totalSaved is the sum of
\* max(0, original - compressed): a job whose output grew contributes 0.
C7_BatchAggregation ==
  \A b \in DOMAIN batch :
    /\ batch[b].processedFiles = CompletedCount(b)
    /\ batch[b].totalSaved = CompletedSaved(b)

\* Three completions with savings 100, 200 and -50 give 3 and 300.
C7_Witness ==
  \E b \in DOMAIN batch :
    /\ batch[b].processedFiles = 3 /\ batch[b].totalSaved = 300
    /\ {batch[b].files[k].saved : k \in 1..Len(batch[b].files)} = {100, 200, -50}

\* The handlers that are about to apply their update to batch b.
AtBatchUpdate(b) ==
  {<<"video", j>> : j \in {k \in Jobs : job[k].pc = "batch" /\ job[k].batchId = b}}
    \cup {<<"image", i>> : i \in {k \in Images : img[k].pc = "batch" /\ img[k].batchId = b}}

\* C8: when completion handlers of one batch run concurrently, each update
\* adds exactly one file and its own clamped saving to the counters as they
\* are, whatever other handlers are in flight: no update is lost.
C8_NoLostBatchUpdate ==
  [][\A b \in DOMAIN batch :
       /\ \A j \in Jobs :
            (job[j].pc = "batch" /\ job'[j].pc = "done" /\ job[j].batchId = b)
            => /\ batch'[b].processedFiles = batch[b].processedFiles + 1
               /\ batch'[b].totalSaved = batch[b].totalSaved
                    + Clamped(job[j].originalSize - job[j].compressedSize)
               /\ Len(batch'[b].files) = Len(batch[b].files) + 1
       /\ \A i \in Images :
            (img[i].pc = "batch" /\ img'[i].pc = "done" /\ img[i].batchId = b)
            => /\ batch'[b].processedFiles = batch[b].processedFiles + 1
               /\ batch'[b].totalSaved = batch[b].totalSaved
                    + Clamped(img[i].originalSize - img[i].compressedSize)
               /\ Len(batch'[b].files) = Len(batch[b].files) + 1
       /\ (AtBatchUpdate(b) = {} /\ AtBatchUpdate(b)' = {})
            => batch'[b] = batch[b]]_vars

\* Two handlers of one batch are both about to update it while an earlier
\* completion is already counted.
C8_Witness ==
  \E b \in DOMAIN batch :
    /\ Cardinality(AtBatchUpdate(b)) >= 2
    /\ batch[b].processedFiles >= 1

\* C9: a submit whose qualityPreset is omitted or unrecognized is processed
\* with the balanced preset: the image request is answered 200 with bytes,
\* and the video request creates a processing record with the balanced
\* parameters.
C9_UnknownPresetFallsBack ==
  /\ \A i \in Images :
       (img[i].pc = "done" /\ img[i].rawPreset \notin KnownPresets)
       => (img[i].qualityPreset = "balanced" /\ img[i].code # 500)
  /\ \A j \in Jobs :
       (job[j].pc \notin {"idle", "setup"} /\ job[j].rawPreset \notin KnownPresets)
       => /\ job[j].qualityPreset = "balanced"
          /\ job[j].pc = "running"
          /\ job[j].fileId \in DOMAIN store
          /\ store[job[j].fileId].status = "processing"
          /\ store[job[j].fileId].qualityPreset = "balanced"

C11_InvalidSubmitRejected ==
  \A j \in Jobs :
    (job[j].pc # "idle" /\ job[j].originalSize = 0)
    => (job[j].pc = "rejected" /\ job[j].http \in 400..499)

\* C12: the response to a video submit whose input was stored is 200 and is
\* there before the codec has started; and once the codec's failure has been
\* handled, a poll of the fileId (submitted once) returns status error with
\* the codec's message.
C12_FailureVisibleThroughPoll ==
  [][/\ \A j \in Jobs :
          (job[j].pc = "idle" /\ job'[j].pc = "setup") => job'[j].http = 200
     /\ \A f \in FileIds :
          (Poll(f)
             /\ Cardinality({j \in Jobs : job[j].pc # "idle" /\ job[j].fileId = f}) = 1
             /\ \E j \in Jobs : job[j].fileId = f /\ job[j].pc = "failed")
          => (lastPoll'.code = 200 /\ lastPoll'.status = "error"
                /\ lastPoll'.error \in {Some(m) : m \in ErrorMessages})]_vars

\* C13: a step that changes the polling client's answer is a poll, and it
\* changes neither the record store nor the files nor the pending writes; the
\* answer is the stored record of the polled fileId, or 404 when there is
\* none. The answer being a function of the unchanged store, polls with no
\* codec event in between agree.
C13_PollIsPureRead ==
  [][lastPoll' # lastPoll =>
       /\ store' = store /\ dups' = dups /\ writes' = writes
       /\ inFiles' = inFiles /\ outFiles' = outFiles /\ job' = job
       /\ LET f == lastPoll'.fileId IN
          IF f \in DOMAIN store'
          THEN /\ lastPoll'.code = 200
               /\ lastPoll'.status = store'[f].status
               /\ lastPoll'.progress = store'[f].progress
               /\ lastPoll'.error = store'[f].error
          ELSE lastPoll'.code = 404]_vars

\* A poll returned the progress a callback had written, and another fileId
\* has no record to return.
C13_Witness ==
  /\ lastPoll.fileId = 1 /\ lastPoll.code = 200
  /\ lastPoll.status = "processing" /\ lastPoll.progress = 40
  /\ 1 \in DOMAIN store /\ store[1].progress = 40
  /\ 2 \notin DOMAIN store

\* The record of fileId g, present or not, is the same before and after.
RecordUnchanged(g) ==
  /\ (g \in DOMAIN store) <=> (g \in DOMAIN store')
  /\ g \in DOMAIN store => store'[g] = store[g]
  /\ dups'[g] = dups[g]

\* C14: a step of a job's submit, setup, progress, end or error handler, or
\* the application of one of its store writes, leaves the record of every
\* other fileId unchanged, whatever the other jobs are doing.
C14_StoreWritesKeyedByFileId ==
  [][\A j \in Jobs :
       (job'[j] # job[j] \/ \E w \in writes \ writes' : w.job = j)
       => \A g \in FileIds \ {job'[j].fileId} : RecordUnchanged(g)]_vars

\* Two jobs with distinct fileIds are running; a progress write of the first
\* has been applied while one of the second is still pending.
C14_Witness ==
  /\ job[1].pc = "running" /\ job[2].pc = "running"
  /\ job[1].fileId # job[2].fileId
  /\ store[job[1].fileId].progress = 40
  /\ store[job[2].fileId].progress = 0
  /\ \E w \in writes : w.job = 2 /\ w.kind = "progress"

\* C15: no two ffmpeg processes are running for the same fileId at the same
\* time.
C15_OneCodecPerFileId ==
  \A j, k \in Jobs :
    (j # k /\ job[j].pc = "running" /\ job[k].pc = "running")
    => job[j].fileId # job[k].fileId

\* The only request submitted so far under job j's fileId is j's.
SubmittedOnce(j) ==
  \A k \in Jobs : (k # j /\ job[k].pc # "idle") => job[k].fileId # job[j].fileId

\* C16: once the end event of a job has been handled (its promise resolved),
\* the job's temporary input file is gone.
C16_InputDeletedAfterEnd ==
  \A j \in Jobs :
    (job[j].pc \in {"resolved", "batch", "done"} /\ SubmittedOnce(j))
    => InputPath(job[j].fileId, job[j].ext) \notin DOMAIN inFiles

\* C17: once the error event of a job has been handled, the record has
\* status error, the failure's message and an endTime, and neither the
\* temporary input file nor the output file exists.
C17_ErrorHandled ==
  \A j \in Jobs :
    (job[j].pc = "failed" /\ SubmittedOnce(j))
    => /\ job[j].fileId \in DOMAIN store
       /\ store[job[j].fileId].status = "error"
       /\ store[job[j].fileId].error \in {Some(m) : m \in ErrorMessages}
       /\ store[job[j].fileId].endTime
       /\ InputPath(job[j].fileId, job[j].ext) \notin DOMAIN inFiles
       /\ job[j].fileId \notin DOMAIN outFiles

\* C18: in every record downloadUrl and compressedSize are present only if
\* the status is completed, and error only if the status is error.
C18_FieldsMatchStatus ==
  \A f \in DOMAIN store :
    /\ (store[f].downloadUrl \/ store[f].compressedSize # None)
         => store[f].status = "completed"
    /\ store[f].error # None => store[f].status = "error"

\* C19: a step in which a progress write of a job fails leaves the store, the
\* files and the job where they were: the promise is neither resolved nor
\* rejected and ffmpeg keeps running. When the terminal write of such a job
\* is applied later, the record becomes completed or error.
C19_ProgressWriteFailureSwallowed ==
  [][\A j \in Jobs :
       /\ job'[j].dropped > job[j].dropped
            => /\ store' = store /\ dups' = dups
               /\ inFiles' = inFiles /\ outFiles' = outFiles
               /\ job'[j].pc = job[j].pc
               /\ writes' \subseteq writes
       /\ (job[j].dropped > 0 /\ job[j].pc = "completing" /\ job'[j].pc = "resolved")
            => store'[job[j].fileId].status = "completed"
       /\ (job[j].dropped > 0 /\ job[j].pc = "erroring" /\ job'[j].pc = "cleanup"
              /\ store' # store)
            => store'[job[j].fileId].status = "error"]_vars

\* A job lost a progress write while ffmpeg was running and went on to
\* completed.
C19_Witness ==
  \E j \in Jobs :
    /\ job[j].dropped > 0 /\ job[j].pc = "resolved"
    /\ store[job[j].fileId].status = "completed"
    /\ store[job[j].fileId].progress = 100

\* C20: no fileId ever has a second record, and the initial write of a video
\* job leaves exactly {status: processing, progress: 0, startTime,
\* originalSize, qualityPreset} under its fileId, with no compressedSize,
\* compressionRatio, endTime, error or downloadUrl of an earlier job.
C20_OneRecordReplacedWhole ==
  [][/\ \A f \in FileIds : dups'[f] = 0
     /\ \A j \in Jobs :
          (job[j].pc = "setup" /\ job'[j].pc = "running")
          => store'[job[j].fileId] =
               [status |-> "processing", progress |-> 0, startTime |-> TRUE,
                originalSize |-> job[j].originalSize,
                qualityPreset |-> job[j].qualityPreset,
                compressedSize |-> None, compressionRatio |-> None,
                endTime |-> FALSE, error |-> None, downloadUrl |-> FALSE]]_vars

\* A fileId whose earlier job had completed was submitted again, and its
\* record is the new job's initial one.
C20_Witness ==
  \E j, k \in Jobs :
    /\ j # k /\ job[j].fileId = job[k].fileId
    /\ job[j].pc = "done" /\ job[k].pc = "running"
    /\ store[job[k].fileId].status = "processing"
    /\ store[job[k].fileId].compressedSize = None
    /\ ~store[job[k].fileId].downloadUrl

\* C24: the progress field of every record is an integer in 0..100, for
\* every percent value of a progress event: absent, zero, negative or above
\* 100.
C24_ProgressInRange ==
  \A f \in DOMAIN store : store[f].progress \in 0..100

\* C26: a job whose end handler failed (the stat of the output file or the
\* completion write threw) or whose setup failed, and that has no write
\* left to apply, still has a record with status completed or error: no
\* record is left at processing for good.
C26_NoJobLeftProcessing ==
  \A j \in Jobs :
    (job[j].pc \in {"end-failed", "setup-failed"} /\ SubmittedOnce(j)
       /\ \A w \in writes : w.job # j)
    => /\ job[j].fileId \in DOMAIN store
       /\ store[job[j].fileId].status \in TerminalStatus

\* The downloads of fileId f that were answered 200.
Served(f) ==
  {d \in Downloads : dl[d].pc = "done" /\ dl[d].code = 200 /\ dl[d].fileId = f}

\* C21: a download that is answered while an earlier download of the same
\* fileId (submitted once) has been served and no retention timer of that
\* fileId has fired yet, is answered 200 with the same bytes.
C21_RetentionWindow ==
  [][\A e \in Downloads :
       LET f == dl'[e].fileId IN
       (dl[e].pc # "done" /\ dl'[e].pc = "done"
          /\ Served(f) # {}
          /\ \A d \in Served(f) : [fileId |-> f, by |-> d] \in timers
          /\ Cardinality({j \in Jobs : job[j].pc # "idle" /\ job[j].fileId = f}) = 1)
       => /\ dl'[e].code = 200
          /\ \A d \in Served(f) : dl'[e].bytes = dl[d].bytes]_vars

\* C29: when a retention timer deletes an output file, the download that
\* set the timer had served the output of that same job.
C29_TimerDeletesOwnJobsOutput ==
  [][\A t \in timers \ timers' :
       (t.fileId \in DOMAIN outFiles /\ t.fileId \notin DOMAIN outFiles')
       => dl[t.by].bytes[1].job = outFiles[t.fileId].job]_vars

\* C22: a step of the image route leaves the job records as they were, so
\* every fileId is polled to the same answer after it as before it, and an
\* image is answered 200 only after the codec returned its compressed bytes.
C22_ImageRouteKeepsJobRecords ==
  [][img' # img =>
       /\ store' = store
       /\ dups' = dups
       /\ \A f \in FileIds : Observe(store', f) = Observe(store, f)
       /\ \A i \in Images :
            (img'[i].code = 200 /\ img[i].code # 200)
            => /\ img[i].pc \in {"analytics", "batch"}
               /\ img'[i].compressedSize \in ImageCompressedSizes]_vars

\* An image was answered 200 under a fileId that has no job record and is
\* polled to 404, and another under the fileId of a recorded video job.
C22_Witness ==
  \E i, h \in Images :
    /\ img[i].pc = "done" /\ img[i].code = 200
    /\ img[i].fileId \notin DOMAIN store
    /\ lastPoll.fileId = img[i].fileId /\ lastPoll.code = 404
    /\ img[h].pc = "done" /\ img[h].code = 200
    /\ img[h].fileId \in DOMAIN store

\* r is the integer nearest to 100 * (1 - c / o), halves going upwards.
Rounded(r, c, o) ==
  /\ 2 * o * r - o <= 200 * (o - c)
  /\ 200 * (o - c) < 2 * o * r + o

\* The ratios the program has computed, each with the sizes it was computed
\* from: the completed video records and the images past their codec call.
Ratios ==
  {<< store[f].compressionRatio[1], store[f].compressedSize[1],
      store[f].originalSize >> : f \in {g \in DOMAIN store :
                                          store[g].status = "completed"}}
  \cup {<< img[i].ratio, img[i].compressedSize, img[i].originalSize >> :
          i \in {h \in Images : img[h].pc \in {"analytics", "batch"}
                                 \/ (img[h].pc = "done" /\ img[h].code = 200)}}

RECURSIVE SavedInFiles(_)
SavedInFiles(files) ==
  IF files = << >> THEN 0
  ELSE Clamped(Head(files).saved) + SavedInFiles(Tail(files))

\* The requests with batchId b whose compression succeeded: video jobs whose
\* record was written completed, images answered 200.
Succeeded(b) ==
  Cardinality({j \in Jobs : job[j].batchId = b
                             /\ job[j].pc \in {"resolved", "batch", "done"}})
    + Cardinality({i \in Images : ImageCounted(i, b)})

\* The requests submitted with batchId b.
SubmittedWith(b) ==
  Cardinality({j \in Jobs : job[j].pc # "idle" /\ job[j].batchId = b})
    + Cardinality({i \in Images : img[i].pc # "idle" /\ img[i].batchId = b})

PathsOf(j) ==
  {InputPath(job[j].fileId, job[j].ext), OutputPath(job[j].fileId)}

\* Job j was accepted and its codec has not finished or failed yet.
InFlight(j) == job[j].pc \in {"setup", "running"}

\* C25: two video jobs in flight with distinct fileIds share no temporary
\* path, and the input file of a job in flight is there as the job wrote it:
\* no other job has overwritten or deleted it.
C25_TempPathsDisjoint ==
  \A j \in Jobs :
    InFlight(j) =>
      /\ \A k \in Jobs :
           (k # j /\ InFlight(k) /\ job[k].fileId # job[j].fileId)
           => PathsOf(j) \cap PathsOf(k) = {}
      /\ (\A k \in Jobs : (k # j /\ job[k].pc # "idle")
                             => job[k].fileId # job[j].fileId)
         => /\ InputPath(job[j].fileId, job[j].ext) \in DOMAIN inFiles
            /\ inFiles[InputPath(job[j].fileId, job[j].ext)] = j

\* C27: every call of connectToMongo that has returned got a database.
C27_NeverUndefined ==
  \A c \in Callers :
    mongo.call[c].pc \in {"returned", "served", "500"}
    => mongo.call[c].got = "db"

\* C30: an entry of the web client is in status processing only if an
\* upload request was sent under its id.
C30_ProcessingHasRequest ==
  \A k \in 1..Len(page.files) :
    page.files[k].status = "processing"
    => \E n \in DOMAIN page.requests :
         page.requests[n].fileId = page.files[k].id

====
